---------------------------- MODULE Spec2Model ----------------------------
(***************************************************************************)
(* Canonical allergen definitions (apps/api/app/allergen_canonical.py).    *)
(*                                                                         *)
(* The module-level tables and the indexes derived from them are the       *)
(* state; canonicalize_allergen, canonical_allergen_from_label,            *)
(* normalize_certainty, certainty_to_ui and iter_all_aliases are the       *)
(* operations.  Text is a TLA+ string (a sequence of characters); the      *)
(* string methods the code calls (strip, lower, startswith, re.sub) are    *)
(* computed character by character.                                        *)
(***************************************************************************)
EXTENDS Naturals, Sequences, FiniteSets, TLC

VARIABLES
    _CANONICAL_DATA,                 \* tuple of CanonicalAllergen entries
    CANONICAL_ALLERGENS,             \* dict slug -> entry (reference: position in _CANONICAL_DATA)
    _CANONICAL_BY_LABEL,             \* dict label.lower() -> entry
    _ALIAS_LOOKUP,                   \* dict label.lower() / alias.lower() -> entry
    _CERTAINTY_NORMALIZATION_RULES,  \* insertion-ordered dict, as a sequence of items
    _UI_CERTAINTY_MAP,               \* dict
    pc,                              \* position of the module body: the statement to run next
    cursor,                          \* [entry, alias]: position of the loops of lines 198-201
    call                             \* the last call made: [fn, arg, result]

tables == << _CANONICAL_DATA, CANONICAL_ALLERGENS, _CANONICAL_BY_LABEL, _ALIAS_LOOKUP,
             _CERTAINTY_NORMALIZATION_RULES, _UI_CERTAINTY_MAP >>

vars == << _CANONICAL_DATA, CANONICAL_ALLERGENS, _CANONICAL_BY_LABEL, _ALIAS_LOOKUP,
           _CERTAINTY_NORMALIZATION_RULES, _UI_CERTAINTY_MAP, pc, cursor, call >>

-----------------------------------------------------------------------------
(* Bounds of the input space.                                              *)

\* longest run of whitespace put around an input text
MaxPad == 2
\* longest run of whitespace put in place of a single inner space
MaxRun == 2
\* largest integer passed where text is expected
MaxInt == 11
\* SpecBuild: most entries of a table, and most aliases of an entry
MaxEntries == 2
MaxAliases == 1

-----------------------------------------------------------------------------
(* Text: the str methods the code uses.                                    *)

CharAt(s, i) == SubSeq(s, i, i)

\* the whitespace str.strip() removes and the regular expression \s matches
Whitespace == {" ", "\t", "\n", "\r"}

isspace(c) == c \in Whitespace

ASCII_UPPERCASE == "ABCDEFGHIJKLMNOPQRSTUVWXYZ"
ASCII_LOWERCASE == "abcdefghijklmnopqrstuvwxyz"

\* the cased ASCII letters: upper-case letter -> lower-case letter, and back
TO_LOWER ==
    [c \in {CharAt(ASCII_UPPERCASE, i) : i \in 1..Len(ASCII_UPPERCASE)} |->
        CharAt(ASCII_LOWERCASE, CHOOSE i \in 1..Len(ASCII_UPPERCASE) : CharAt(ASCII_UPPERCASE, i) = c)]

TO_UPPER ==
    [c \in {CharAt(ASCII_LOWERCASE, i) : i \in 1..Len(ASCII_LOWERCASE)} |->
        CharAt(ASCII_UPPERCASE, CHOOSE i \in 1..Len(ASCII_LOWERCASE) : CharAt(ASCII_LOWERCASE, i) = c)]

lower_char(c) == IF c \in DOMAIN TO_LOWER THEN TO_LOWER[c] ELSE c

upper_char(c) == IF c \in DOMAIN TO_UPPER THEN TO_UPPER[c] ELSE c

RECURSIVE lower(_)
\* str.lower()
lower(s) ==
    IF Len(s) <= 1 THEN lower_char(s)
    ELSE lower(SubSeq(s, 1, Len(s) \div 2)) \o lower(SubSeq(s, Len(s) \div 2 + 1, Len(s)))

RECURSIVE upper(_)
\* str.upper()
upper(s) ==
    IF Len(s) <= 1 THEN upper_char(s)
    ELSE upper(SubSeq(s, 1, Len(s) \div 2)) \o upper(SubSeq(s, Len(s) \div 2 + 1, Len(s)))

RECURSIVE lstrip(_)
lstrip(s) ==
    IF s # "" /\ isspace(CharAt(s, 1)) THEN lstrip(SubSeq(s, 2, Len(s))) ELSE s

RECURSIVE rstrip(_)
rstrip(s) ==
    IF s # "" /\ isspace(CharAt(s, Len(s))) THEN rstrip(SubSeq(s, 1, Len(s) - 1)) ELSE s

\* str.strip()
strip(s) == rstrip(lstrip(s))

\* what re.sub(r"\s+", " ", s) leaves of the character at i: a run of whitespace
\* becomes the one space that stands for its first character
collapsed_char(s, i) ==
    IF isspace(CharAt(s, i))
    THEN (IF i > 1 /\ isspace(CharAt(s, i - 1)) THEN "" ELSE " ")
    ELSE CharAt(s, i)

RECURSIVE collapse_range(_, _, _)
collapse_range(s, lo, hi) ==
    IF lo > hi THEN ""
    ELSE IF lo = hi THEN collapsed_char(s, lo)
    ELSE collapse_range(s, lo, (lo + hi) \div 2) \o collapse_range(s, (lo + hi) \div 2 + 1, hi)

\* re.sub(r"\s+", " ", s): every maximal run of whitespace becomes one space
collapse_whitespace(s) == collapse_range(s, 1, Len(s))

\* str.startswith(key)
startswith(s, key) == Len(key) <= Len(s) /\ SubSeq(s, 1, Len(key)) = key

DIGITS == "0123456789"

RECURSIVE str_int(_)
\* str() of a non-negative int
str_int(n) ==
    IF n < 10 THEN CharAt(DIGITS, n + 1)
    ELSE str_int(n \div 10) \o CharAt(DIGITS, (n % 10) + 1)

-----------------------------------------------------------------------------
(* The data.                                                               *)

\* @dataclass(frozen=True) class CanonicalAllergen
CanonicalAllergen(slug, label, legacy_codes, aliases) ==
    [slug |-> slug, label |-> label, legacy_codes |-> legacy_codes, aliases |-> aliases]

\* Rule with one target mistyped: "high confidence" maps to "certain"
Rule_high_confidence_certain(key, target) ==
    [key |-> key, target |-> IF key = "high confidence" THEN "certain" ELSE target]

\* Rule with one target mistyped: "confirmed" maps to itself
Rule_confirmed_confirmed(key, target) ==
    [key |-> key, target |-> IF key = "confirmed" THEN "confirmed" ELSE target]

\* one "key": "value" item of a dict literal
Rule(key, target) == [key |-> key, target |-> target]

\* _CANONICAL_DATA, lines 19-190, and _CERTAINTY_NORMALIZATION_RULES, lines 204-242
SHIPPED_CANONICAL_DATA ==
  <<
    CanonicalAllergen("wheat", "Wheat", <<>>,
        << "wheat", "gluten", "durum wheat", "semolina", "farina", "flour",
           "bread", "cereal", "cereals" >>),
    CanonicalAllergen("barley", "Barley", <<>>,
        << "barley", "malt", "hordeum" >>),
    CanonicalAllergen("rye", "Rye", <<>>,
        << "rye", "pumpernickel", "secale" >>),
    CanonicalAllergen("oats", "Oats", <<>>,
        << "oats", "oatmeal", "rolled oats" >>),
    CanonicalAllergen("spelt", "Spelt", <<>>,
        << "spelt", "dinkel", "spelt flour" >>),
    CanonicalAllergen("triticale", "Triticale", <<>>,
        << "triticale", "triticale flour" >>),
    CanonicalAllergen("crustaceans", "Crustaceans", <<>>,
        << "crustacean", "shrimp", "prawn", "crab", "lobster", "crayfish",
           "shellfish" >>),
    CanonicalAllergen("eggs", "Eggs", <<>>,
        << "egg", "eggs", "albumen", "meringue" >>),
    CanonicalAllergen("fish", "Fish", <<>>,
        << "fish", "salmon", "cod", "trout", "haddock", "tuna", "bass" >>),
    CanonicalAllergen("peanuts", "Peanuts", <<>>,
        << "peanut", "peanuts", "groundnut", "groundnuts", "satay",
           "arachis" >>),
    CanonicalAllergen("soybeans", "Soybeans", <<>>,
        << "soy", "soya", "soybean", "soybeans", "edamame", "tofu",
           "tempeh", "lecithin" >>),
    CanonicalAllergen("milk", "Milk", <<>>,
        << "milk", "dairy", "lactose", "cheese", "butter", "cream",
           "yogurt" >>),
    CanonicalAllergen("tree_nuts", "Tree nuts", <<>>,
        << "nut", "nuts", "almond", "almonds", "hazelnut", "hazelnuts",
           "walnut", "walnuts", "cashew", "cashews", "pecan", "pecans",
           "brazil nut", "brazil nuts", "pistachio", "pistachios",
           "macadamia", "macadamia nut" >>),
    CanonicalAllergen("celery", "Celery", <<>>,
        << "celery", "celeriac", "apium" >>),
    CanonicalAllergen("mustard", "Mustard", <<>>,
        << "mustard", "dijon", "wholegrain", "yellow mustard",
           "brown mustard" >>),
    CanonicalAllergen("sesame", "Sesame seeds", <<>>,
        << "sesame", "sesame seed", "sesame seeds", "tahini", "gomasio" >>),
    CanonicalAllergen("sulphites", "Sulphur dioxide & sulphites", <<>>,
        << "sulphite", "sulfite", "sulphites", "sulfites", "so2",
           "preservative", "e220", "e221", "e222", "e223", "e224", "e226",
           "e227", "e228" >>),
    CanonicalAllergen("lupin", "Lupin", <<>>,
        << "lupin", "lupine", "lupini", "lupin flour" >>),
    CanonicalAllergen("molluscs", "Molluscs", <<>>,
        << "mollusc", "molluscs", "mussel", "mussels", "oyster", "oysters",
           "clam", "octopus", "squid", "scallop", "snail" >>),
    CanonicalAllergen("meat", "Meat or animal derivative", <<>>,
        << "meat", "beef", "pork", "chicken", "lamb", "steak", "bacon",
           "ham", "sausage", "gelatin", "gelatine", "lard", "animal fat",
           "animal derivative" >>),
    CanonicalAllergen("honey", "Honey", <<>>,
        << "honey", "bee honey", "raw honey" >>)
  >>

SHIPPED_CERTAINTY_RULES ==
  <<
    Rule("certain", "certain"),
    Rule("definite", "certain"),
    Rule("explicit", "certain"),
    Rule("sure", "certain"),
    Rule("confirmed", "certain"),
    Rule("direct", "certain"),
    Rule("likely", "likely"),
    Rule("probable", "likely"),
    Rule("suggested", "likely"),
    Rule("estimated", "likely"),
    Rule("assumed", "likely"),
    Rule("inferred", "likely"),
    Rule("high", "likely"),
    Rule("very high", "likely"),
    Rule("high confidence", "likely"),
    Rule("most likely", "likely"),
    Rule("strong", "likely"),
    Rule("medium", "likely"),
    Rule("moderate", "likely"),
    Rule("medium confidence", "likely"),
    Rule("possible", "likely"),
    Rule("potential", "likely"),
    Rule("maybe", "likely"),
    Rule("uncertain", "likely"),
    Rule("low", "likely"),
    Rule("low confidence", "likely"),
    Rule("speculative", "likely"),
    Rule("predicted", "likely"),
    Rule("unknown", "likely"),
    Rule("n/a", "likely"),
    Rule("na", "likely"),
    Rule("unspecified", "likely")
  >>

\* _UI_CERTAINTY_MAP, lines 244-249
SHIPPED_UI_CERTAINTY_MAP ==
  <<
    Rule("likely", "likely"),
    Rule("certain", "certain"),
    Rule("confirmed", "confirmed")
  >>

-----------------------------------------------------------------------------
(* Python values: what a caller can pass and what a call can end with.     *)

None == [kind |-> "None"]
Str(text) == [kind |-> "str", text |-> text]
Int(n) == [kind |-> "int", n |-> n]
Bool(b) == [kind |-> "bool", b |-> b]
\* an instance of CanonicalAllergen
Instance(entry) == [kind |-> "CanonicalAllergen", entry |-> entry]
\* dict.keys()
KeysView(keys) == [kind |-> "dict_keys", keys |-> keys]
\* the call ended with an exception instead of a value
Raised(exc) == [kind |-> "raise", exc |-> exc]

\* bool(value), the test behind "if not value"
truthy(value) ==
    CASE value.kind = "None" -> FALSE
      [] value.kind = "str" -> value.text # ""
      [] value.kind = "int" -> value.n # 0
      [] value.kind = "bool" -> value.b
      [] OTHER -> TRUE

\* repr() of a str without quotes or escapes
repr_str(s) == "'" \o s \o "'"

RECURSIVE repr_items(_)
repr_items(t) ==
    IF Len(t) = 0 THEN ""
    ELSE IF Len(t) = 1 THEN repr_str(t[1])
    ELSE repr_str(t[1]) \o ", " \o repr_items(Tail(t))

\* repr() of a tuple of str
repr_tuple(t) ==
    IF Len(t) = 1 THEN "(" \o repr_str(t[1]) \o ",)" ELSE "(" \o repr_items(t) \o ")"

\* str(value): the text itself, or the repr of anything else
str(value) ==
    CASE value.kind = "str" -> value.text
      [] value.kind = "int" -> str_int(value.n)
      [] value.kind = "bool" -> IF value.b THEN "True" ELSE "False"
      [] value.kind = "None" -> "None"
      [] value.kind = "CanonicalAllergen" ->
            "CanonicalAllergen(slug=" \o repr_str(value.entry.slug)
            \o ", label=" \o repr_str(value.entry.label)
            \o ", legacy_codes=" \o repr_tuple(value.entry.legacy_codes)
            \o ", aliases=" \o repr_tuple(value.entry.aliases) \o ")"

-----------------------------------------------------------------------------
(* dict.  A dict with str keys is a function on its keys; the certainty    *)
(* rules, whose order the prefix scan reads, are the sequence of items in  *)
(* insertion order.                                                        *)

EmptyDict == << >>

\* d.setdefault(key, value) in place of d[key] = value: the first write wins
dict_setdefault(d, key, value) == d @@ (key :> value)

\* d[key] = value: a new key is added, an old one is overwritten
dict_setitem(d, key, value) == (key :> value) @@ d

has_item(items, key) == \E i \in 1..Len(items) : items[i].key = key

\* items.get(key) of an insertion-ordered dict; None when the key is absent
items_get(items, key) ==
    IF has_item(items, key)
    THEN Str(items[CHOOSE i \in 1..Len(items) : items[i].key = key].target)
    ELSE None

\* dict.get(key) of an index; the entry the reference stands for, or None
index_get(index, key) ==
    IF key \in DOMAIN index THEN Instance(_CANONICAL_DATA[index[key]]) ELSE None

-----------------------------------------------------------------------------
(* The values the module body computes, lines 193-201.                     *)

RECURSIVE slug_index(_, _)
\* {item.slug: item for item in data[:n]}
slug_index(data, n) ==
    IF n = 0 THEN EmptyDict ELSE dict_setitem(slug_index(data, n - 1), data[n].slug, n)

RECURSIVE label_index(_, _)
\* {item.label.lower(): item for item in data[:n]}
label_index(data, n) ==
    IF n = 0 THEN EmptyDict
    ELSE dict_setitem(label_index(data, n - 1), lower(data[n].label), n)

\* one assignment _ALIAS_LOOKUP[key] = entry
Insertion(key, ref) == [key |-> key, ref |-> ref]

\* lines 199-201 without .lower() on the label: the label is the key as declared
entry_insertions_label_as_declared(data, i) ==
    << Insertion(data[i].label, i) >>
    \o [j \in 1..Len(data[i].aliases) |-> Insertion(lower(data[i].aliases[j]), i)]

\* lines 199-201 for entry i: the assignments in the order they run, the
\* label's (line 199) and then one for each alias (line 201)
entry_insertions(data, i) ==
    << Insertion(lower(data[i].label), i) >>
    \o [j \in 1..Len(data[i].aliases) |-> Insertion(lower(data[i].aliases[j]), i)]

-----------------------------------------------------------------------------
(* The public functions, lines 252-307.                                    *)

\* canonicalize_allergen with the prefix fallback of normalize_certainty
canonicalize_allergen_prefix(value) ==
    IF value.kind = "None" THEN None
    ELSE IF value.kind = "CanonicalAllergen" THEN value
    ELSE LET text == lower(strip(str(value)))
             keys == {k \in DOMAIN _ALIAS_LOOKUP : startswith(text, k)}
         IN  IF text = "" THEN None
             ELSE IF text \in DOMAIN _ALIAS_LOOKUP
             THEN Instance(_CANONICAL_DATA[_ALIAS_LOOKUP[text]])
             ELSE IF keys # {}
             THEN Instance(_CANONICAL_DATA[_ALIAS_LOOKUP[CHOOSE k \in keys : TRUE]])
             ELSE None

canonicalize_allergen(value) ==
    IF value.kind = "None" THEN None
    ELSE IF value.kind = "CanonicalAllergen" THEN value
    ELSE LET text == lower(strip(str(value)))
         IN  IF text = "" THEN None ELSE index_get(_ALIAS_LOOKUP, text)

\* canonical_allergen_from_label reading _ALIAS_LOOKUP in place of _CANONICAL_BY_LABEL
canonical_allergen_from_label_alias(label) ==
    IF ~truthy(label) THEN None
    ELSE IF label.kind # "str" THEN Raised("AttributeError")
    ELSE IF lower(strip(label.text)) \in DOMAIN _ALIAS_LOOKUP
    THEN Instance(_CANONICAL_DATA[_ALIAS_LOOKUP[lower(strip(label.text))]])
    ELSE None

canonical_allergen_from_label(label) ==
    IF ~truthy(label) THEN None
    ELSE IF label.kind # "str" THEN Raised("AttributeError")   \* no .strip()
    ELSE index_get(_CANONICAL_BY_LABEL, lower(strip(label.text)))

RECURSIVE prefix_scan(_, _, _)
\* lines 286-289: the loop over the items from position i on
prefix_scan(items, text, i) ==
    IF i > Len(items) THEN None
    ELSE IF startswith(text, items[i].key) THEN Str(items[i].target)
    ELSE prefix_scan(items, text, i + 1)

\* normalize_with without line 281: runs of whitespace are left as they are
normalize_with_no_collapse(items, value) ==
    IF value.kind = "None" THEN None
    ELSE LET text == lower(strip(str(value)))
         IN  IF text = "" THEN None
             ELSE IF \E i \in 1..Len(items) : items[i].key = text
             THEN Str(items[CHOOSE i \in 1..Len(items) : items[i].key = text].target)
             ELSE IF \E i \in 1..Len(items) : startswith(text, items[i].key)
             THEN Str(items[CHOOSE i \in 1..Len(items) :
                              /\ startswith(text, items[i].key)
                              /\ \A j \in 1..(i - 1) : ~startswith(text, items[j].key)].target)
             ELSE None

\* lines 282-289: the exact lookup, and the prefix scan when it finds nothing
rule_lookup(items, text) ==
    LET normalized == items_get(items, text)
    IN  IF truthy(normalized) THEN normalized ELSE prefix_scan(items, text, 1)

\* normalize_certainty over a given rule table
normalize_with(items, value) ==
    IF value.kind = "None" THEN None
    ELSE LET stripped == lower(strip(str(value)))
         IN  IF stripped = "" THEN None
             ELSE rule_lookup(items, collapse_whitespace(stripped))

normalize_certainty(value) == normalize_with(_CERTAINTY_NORMALIZATION_RULES, value)

\* certainty_to_ui folding its input (strip, lower) before the lookup
certainty_to_ui_folding(value) ==
    IF ~truthy(value) THEN Str("likely")
    ELSE IF value.kind = "str"
            /\ \E i \in 1..Len(_UI_CERTAINTY_MAP) :
                  _UI_CERTAINTY_MAP[i].key = lower(strip(value.text))
    THEN Str(lower(strip(value.text)))
    ELSE Str("likely")

certainty_to_ui(value) ==
    IF ~truthy(value) THEN Str("likely")
    ELSE LET mapped == IF value.kind = "str"
                       THEN items_get(_UI_CERTAINTY_MAP, value.text)
                       ELSE None    \* hashable, and equal to no str key
         IN  IF truthy(mapped) THEN mapped ELSE Str("likely")

iter_all_aliases == KeysView(DOMAIN _ALIAS_LOOKUP)

-----------------------------------------------------------------------------
(* The inputs the calls are made with.                                     *)

LeftPads == {SubSeq(" \t\n\r \t", 1, n) : n \in 0..MaxPad}
RightPads == {SubSeq("\n \r\t \n", 1, n) : n \in 0..MaxPad}

\* the whitespace put around a text: on one side, or as much on both
Pads ==
    {pad \in LeftPads \X RightPads :
        Len(pad[1]) = 0 \/ Len(pad[2]) = 0 \/ Len(pad[1]) = Len(pad[2])}

\* what a single inner space of a word is replaced by
InnerRuns ==
    {" "} \cup {SubSeq("\t \n \t ", i, i + n - 1) : i \in 1..3, n \in 1..MaxRun}

RECURSIVE widen(_, _)
widen(s, run) ==
    IF Len(s) <= 1 THEN (IF s = " " THEN run ELSE s)
    ELSE widen(SubSeq(s, 1, Len(s) \div 2), run) \o widen(SubSeq(s, Len(s) \div 2 + 1, Len(s)), run)

Cased(s) == {s, lower(s), upper(s)}

Decorated(words, affixes) ==
    UNION { UNION { { pad[1] \o c \o pad[2] : pad \in Pads }
                    : c \in Cased(a[1] \o widen(w, run) \o a[2]) }
            : w \in words, run \in InnerRuns, a \in affixes }

\* every label and alias, as declared in the shipped table
DeclaredTexts ==
    UNION { {SHIPPED_CANONICAL_DATA[i].label}
            \cup {SHIPPED_CANONICAL_DATA[i].aliases[j] :
                    j \in 1..Len(SHIPPED_CANONICAL_DATA[i].aliases)}
            : i \in 1..Len(SHIPPED_CANONICAL_DATA) }

AllergenAffixes == { <<"", "">>, <<"", " butter traces">>, <<"raw ", "">> }

AllergenTexts ==
    Decorated(DeclaredTexts \cup {"", "bogus"}, AllergenAffixes)
    \cup {"Peanut butter traces"}

\* a CanonicalAllergen that is not an entry of the table
ForeignAllergen == CanonicalAllergen("kiwi", "Kiwi", <<"K1">>, <<"kiwi fruit">>)

NonTextArgs ==
    {None} \cup {Int(n) : n \in 0..MaxInt} \cup {Bool(b) : b \in BOOLEAN}
    \cup {Instance(SHIPPED_CANONICAL_DATA[i]) : i \in 1..Len(SHIPPED_CANONICAL_DATA)}
    \cup {Instance(ForeignAllergen)}

AllergenArgs == NonTextArgs \cup {Str(t) : t \in AllergenTexts}

CertaintyWords ==
    {SHIPPED_CERTAINTY_RULES[i].key : i \in 1..Len(SHIPPED_CERTAINTY_RULES)}
    \cup {SHIPPED_UI_CERTAINTY_MAP[i].key : i \in 1..Len(SHIPPED_UI_CERTAINTY_MAP)}
    \cup {"", "bogus"}

CertaintyAffixes ==
    { <<"", "">>, <<"", "ish">>, <<"", " risk">>, <<"", " confidence please">>, <<"not ", "">> }

CertaintyTexts == Decorated(CertaintyWords, CertaintyAffixes)

CertaintyArgs == NonTextArgs \cup {Str(t) : t \in CertaintyTexts}

-----------------------------------------------------------------------------
(* The calls, made once the import has ended.                              *)

Call(fn, arg, result) == [fn |-> fn, arg |-> arg, result |-> result]

\* CanonicalizeAllergen caching the text it resolved under the text as given
CanonicalizeAllergen_caching ==
    /\ pc = "ready"
    /\ \E value \in AllergenArgs :
          /\ call' = Call("canonicalize_allergen", value, canonicalize_allergen(value))
          /\ _ALIAS_LOOKUP' =
                IF value.kind = "str" /\ lower(strip(value.text)) \in DOMAIN _ALIAS_LOOKUP
                THEN (value.text :> _ALIAS_LOOKUP[lower(strip(value.text))]) @@ _ALIAS_LOOKUP
                ELSE _ALIAS_LOOKUP
    /\ pc' = "returned"
    /\ UNCHANGED << _CANONICAL_DATA, CANONICAL_ALLERGENS, _CANONICAL_BY_LABEL,
                    _CERTAINTY_NORMALIZATION_RULES, _UI_CERTAINTY_MAP, cursor >>

CanonicalizeAllergen ==
    /\ pc = "ready"
    /\ \E value \in AllergenArgs :
          call' = Call("canonicalize_allergen", value, canonicalize_allergen(value))
    /\ pc' = "returned"
    /\ UNCHANGED << tables, cursor >>

CanonicalAllergenFromLabel ==
    /\ pc = "ready"
    /\ \E label \in AllergenArgs :
          call' = Call("canonical_allergen_from_label", label,
                       canonical_allergen_from_label(label))
    /\ pc' = "returned"
    /\ UNCHANGED << tables, cursor >>

NormalizeCertainty ==
    /\ pc = "ready"
    /\ \E value \in CertaintyArgs :
          call' = Call("normalize_certainty", value, normalize_certainty(value))
    /\ pc' = "returned"
    /\ UNCHANGED << tables, cursor >>

CertaintyToUi ==
    /\ pc = "ready"
    /\ \E value \in CertaintyArgs :
          call' = Call("certainty_to_ui", value, certainty_to_ui(value))
    /\ pc' = "returned"
    /\ UNCHANGED << tables, cursor >>

IterAllAliases ==
    /\ pc = "ready"
    /\ call' = Call("iter_all_aliases", None, iter_all_aliases)
    /\ pc' = "returned"
    /\ UNCHANGED << tables, cursor >>

\* the caller takes the result; the module is ready for the next call
Return ==
    /\ pc = "returned"
    /\ pc' = "ready"
    /\ call' = Call("import", None, None)
    /\ UNCHANGED << tables, cursor >>

-----------------------------------------------------------------------------
(* The import: the module body of lines 193-249, statement by statement.   *)
(* Spec imports the shipped table and then takes calls; SpecBuild imports  *)
(* any small table in place of the shipped one.                            *)

BuildLabels == {"Nut", "Milk"}
BuildAliases == {"nut", "MILK", "dairy"}

BuildEntries ==
    { CanonicalAllergen(lower(label), label, << >>, aliases) :
        label \in BuildLabels,
        aliases \in UNION { [1..n -> BuildAliases] : n \in 0..MaxAliases } }

BuildTables == UNION { [1..n -> BuildEntries] : n \in 1..MaxEntries }

\* the module body has run up to line 190: the table is defined, nothing else
ImportStart(data) ==
    /\ _CANONICAL_DATA = data
    /\ CANONICAL_ALLERGENS = EmptyDict
    /\ _CANONICAL_BY_LABEL = EmptyDict
    /\ _ALIAS_LOOKUP = EmptyDict
    /\ _CERTAINTY_NORMALIZATION_RULES = << >>
    /\ _UI_CERTAINTY_MAP = << >>
    /\ pc = "L193"
    /\ cursor = [entry |-> 1, alias |-> 0]
    /\ call = Call("import", None, None)

\* line 193
DefineCanonicalAllergens ==
    /\ pc = "L193"
    /\ CANONICAL_ALLERGENS' = slug_index(_CANONICAL_DATA, Len(_CANONICAL_DATA))
    /\ pc' = "L194"
    /\ UNCHANGED << _CANONICAL_DATA, _CANONICAL_BY_LABEL, _ALIAS_LOOKUP,
                    _CERTAINTY_NORMALIZATION_RULES, _UI_CERTAINTY_MAP, cursor, call >>

\* lines 194-196
DefineCanonicalByLabel ==
    /\ pc = "L194"
    /\ _CANONICAL_BY_LABEL' = label_index(_CANONICAL_DATA, Len(_CANONICAL_DATA))
    /\ pc' = "L197"
    /\ UNCHANGED << _CANONICAL_DATA, CANONICAL_ALLERGENS, _ALIAS_LOOKUP,
                    _CERTAINTY_NORMALIZATION_RULES, _UI_CERTAINTY_MAP, cursor, call >>

\* line 197
DefineAliasLookup ==
    /\ pc = "L197"
    /\ _ALIAS_LOOKUP' = EmptyDict
    /\ cursor' = [entry |-> 1, alias |-> 0]
    /\ pc' = "L198"
    /\ UNCHANGED << _CANONICAL_DATA, CANONICAL_ALLERGENS, _CANONICAL_BY_LABEL,
                    _CERTAINTY_NORMALIZATION_RULES, _UI_CERTAINTY_MAP, call >>

\* lines 198-199: the next entry, and its label
InsertLabel ==
    /\ pc = "L198"
    /\ cursor.entry <= Len(_CANONICAL_DATA)
    /\ cursor.alias = 0
    /\ LET op == entry_insertions(_CANONICAL_DATA, cursor.entry)[1]
       IN  _ALIAS_LOOKUP' = dict_setitem(_ALIAS_LOOKUP, op.key, op.ref)
    /\ cursor' = [cursor EXCEPT !.alias = 1]
    /\ UNCHANGED << _CANONICAL_DATA, CANONICAL_ALLERGENS, _CANONICAL_BY_LABEL,
                    _CERTAINTY_NORMALIZATION_RULES, _UI_CERTAINTY_MAP, pc, call >>

\* lines 200-201: the next alias of the entry
InsertAlias ==
    /\ pc = "L198"
    /\ cursor.entry <= Len(_CANONICAL_DATA)
    /\ cursor.alias \in 1..Len(_CANONICAL_DATA[cursor.entry].aliases)
    /\ LET op == entry_insertions(_CANONICAL_DATA, cursor.entry)[cursor.alias + 1]
       IN  _ALIAS_LOOKUP' = dict_setitem(_ALIAS_LOOKUP, op.key, op.ref)
    /\ cursor' = [cursor EXCEPT !.alias = @ + 1]
    /\ UNCHANGED << _CANONICAL_DATA, CANONICAL_ALLERGENS, _CANONICAL_BY_LABEL,
                    _CERTAINTY_NORMALIZATION_RULES, _UI_CERTAINTY_MAP, pc, call >>

\* line 200: the aliases of the entry are exhausted
NextEntry ==
    /\ pc = "L198"
    /\ cursor.entry <= Len(_CANONICAL_DATA)
    /\ cursor.alias > Len(_CANONICAL_DATA[cursor.entry].aliases)
    /\ cursor' = [entry |-> cursor.entry + 1, alias |-> 0]
    /\ UNCHANGED << tables, pc, call >>

\* line 198: the entries are exhausted
EndAliasLoop ==
    /\ pc = "L198"
    /\ cursor.entry > Len(_CANONICAL_DATA)
    /\ pc' = "L204"
    /\ UNCHANGED << tables, cursor, call >>

\* lines 204-242
DefineCertaintyRules ==
    /\ pc = "L204"
    /\ _CERTAINTY_NORMALIZATION_RULES' = SHIPPED_CERTAINTY_RULES
    /\ pc' = "L244"
    /\ UNCHANGED << _CANONICAL_DATA, CANONICAL_ALLERGENS, _CANONICAL_BY_LABEL, _ALIAS_LOOKUP,
                    _UI_CERTAINTY_MAP, cursor, call >>

\* lines 244-249
DefineUiCertaintyMap ==
    /\ pc = "L244"
    /\ _UI_CERTAINTY_MAP' = SHIPPED_UI_CERTAINTY_MAP
    /\ pc' = "ready"
    /\ UNCHANGED << _CANONICAL_DATA, CANONICAL_ALLERGENS, _CANONICAL_BY_LABEL, _ALIAS_LOOKUP,
                    _CERTAINTY_NORMALIZATION_RULES, cursor, call >>

NextBuild ==
    \/ DefineCanonicalAllergens
    \/ DefineCanonicalByLabel
    \/ DefineAliasLookup
    \/ InsertLabel
    \/ InsertAlias
    \/ NextEntry
    \/ EndAliasLoop
    \/ DefineCertaintyRules
    \/ DefineUiCertaintyMap

Init == ImportStart(SHIPPED_CANONICAL_DATA)

Next ==
    \/ DefineCanonicalAllergens
    \/ DefineCanonicalByLabel
    \/ DefineAliasLookup
    \/ InsertLabel
    \/ InsertAlias
    \/ NextEntry
    \/ EndAliasLoop
    \/ DefineCertaintyRules
    \/ DefineUiCertaintyMap
    \/ CanonicalizeAllergen
    \/ CanonicalAllergenFromLabel
    \/ NormalizeCertainty
    \/ CertaintyToUi
    \/ IterAllAliases
    \/ Return

\* the shipped module: its import, then any calls
Spec == Init /\ [][Next]_vars

InitBuild == \E data \in BuildTables : ImportStart(data)

\* the import alone, of any table of BuildTables
SpecBuild == InitBuild /\ [][NextBuild]_vars

-----------------------------------------------------------------------------
(* Properties.                                                             *)

returned(fn) == pc = "returned" /\ call.fn = fn

\* s without its leading and trailing whitespace, by positions: from the
\* first to the last character that is not whitespace
trimmed(s) ==
    IF \A i \in 1..Len(s) : CharAt(s, i) \in Whitespace THEN ""
    ELSE SubSeq(s,
                CHOOSE i \in 1..Len(s) :
                    /\ CharAt(s, i) \notin Whitespace
                    /\ \A j \in 1..(i - 1) : CharAt(s, j) \in Whitespace,
                CHOOSE i \in 1..Len(s) :
                    /\ CharAt(s, i) \notin Whitespace
                    /\ \A j \in (i + 1)..Len(s) : CharAt(s, j) \in Whitespace)

\* entry i of the table declares the key: its label or one of its aliases lower-cases to it
DeclaresKey(data, i, key) ==
    \/ lower(data[i].label) = key
    \/ \E j \in 1..Len(data[i].aliases) : lower(data[i].aliases[j]) = key

DeclaredKeys(data) ==
    UNION { {lower(data[i].label)}
            \cup {lower(data[i].aliases[j]) : j \in 1..Len(data[i].aliases)}
            : i \in 1..Len(data) }

\* the entry declared last among those that declare the key
LastDeclaring(data, key) ==
    CHOOSE i \in 1..Len(data) :
        /\ DeclaresKey(data, i, key)
        /\ \A k \in (i + 1)..Len(data) : ~DeclaresKey(data, k, key)

\* C1: canonicalize_allergen of a label or alias of the shipped table, as
\* declared, returns the entry that declared it: the last-declared entry
\* whose label or alias lower-cases to that text.
C1_DeclaredTextResolves ==
    (returned("canonicalize_allergen") /\ call.arg.kind = "str"
        /\ call.arg.text \in DeclaredTexts)
    => /\ call.result =
            Instance(_CANONICAL_DATA[LastDeclaring(_CANONICAL_DATA, lower(call.arg.text))])
       /\ \/ call.result.entry.label = call.arg.text
          \/ \E j \in 1..Len(call.result.entry.aliases) :
                call.result.entry.aliases[j] = call.arg.text

C1_Witness ==
    /\ returned("canonicalize_allergen")
    /\ call.arg = Str("Tree nuts")
    /\ call.result = Instance(SHIPPED_CANONICAL_DATA[13])

\* the keys the shipped table declares, and the lower-cased label of each entry
ShippedKeys == DeclaredKeys(SHIPPED_CANONICAL_DATA)
ShippedLabelKeys ==
    [i \in 1..Len(SHIPPED_CANONICAL_DATA) |-> lower(SHIPPED_CANONICAL_DATA[i].label)]

\* C2: canonical_allergen_from_label of a text returns entry E exactly when
\* the text, trimmed and lower-cased, is E's lower-cased label; a text that is
\* only an alias yields None although canonicalize_allergen resolves it.
C2_LabelIndexOnly ==
    (returned("canonical_allergen_from_label") /\ call.arg.kind = "str")
    => LET key == lower(trimmed(call.arg.text))
           hits == {i \in 1..Len(SHIPPED_CANONICAL_DATA) : ShippedLabelKeys[i] = key}
       IN  /\ hits = {} => call.result = None
           /\ hits # {} => \E i \in hits : call.result = Instance(SHIPPED_CANONICAL_DATA[i])
           /\ (hits = {} /\ key \in ShippedKeys)
                => canonicalize_allergen(call.arg) # None

C2_Witness ==
    /\ returned("canonical_allergen_from_label")
    /\ call.arg = Str("dairy")
    /\ call.result = None
    /\ canonicalize_allergen(call.arg) = Instance(SHIPPED_CANONICAL_DATA[12])

\* the positions of the rule keys the text starts with
PrefixPositions(items, text) == {i \in 1..Len(items) : startswith(text, items[i].key)}

\* the reference of C3, over the shipped rule table
ReferenceCertainty(value) ==
    IF value.kind = "None" \/ trimmed(str(value)) = "" THEN None
    ELSE LET text == collapse_whitespace(lower(trimmed(str(value))))
             exact == {i \in 1..Len(SHIPPED_CERTAINTY_RULES) :
                          SHIPPED_CERTAINTY_RULES[i].key = text}
             prefix == PrefixPositions(SHIPPED_CERTAINTY_RULES, text)
         IN  IF exact # {}
             THEN Str(SHIPPED_CERTAINTY_RULES[CHOOSE i \in exact : TRUE].target)
             ELSE IF prefix # {}
             THEN Str(SHIPPED_CERTAINTY_RULES[
                        CHOOSE i \in prefix : \A j \in prefix : i <= j].target)
             ELSE None

\* C3: normalize_certainty equals the reference (None for a null or blank
\* input; else the target of the exact rule key, else of the first rule key
\* in declaration order that is a prefix, else None), so its result is
\* "certain", "likely" or None.
C3_NormalizeMatchesReference ==
    returned("normalize_certainty")
    => /\ call.result = ReferenceCertainty(call.arg)
       /\ call.result \in {Str("certain"), Str("likely"), None}

C3_Witness ==
    /\ returned("normalize_certainty")
    /\ call.arg = Str(" \tVERY\t HIGHISH\n ")
    /\ call.result = Str("likely")

UiValues == {Str("likely"), Str("certain"), Str("confirmed")}

\* C4: certainty_to_ui never raises and returns one of "likely", "certain",
\* "confirmed": its input when the input is one of the three, "likely" for
\* every other input.
C4_UiVocabulary ==
    returned("certainty_to_ui")
    => /\ call.result \in UiValues
       /\ call.arg \in UiValues => call.result = call.arg
       /\ call.arg \notin UiValues => call.result = Str("likely")

C4_Witness ==
    /\ returned("certainty_to_ui")
    /\ call.arg = Str("CONFIRMED")
    /\ call.result = Str("likely")

\* C5: no call of a public function, whatever the value passed, ends with a
\* raised exception.
C5_NoCallRaises == pc = "returned" => call.result.kind # "raise"

\* C6: canonicalize_allergen is an exact-key lookup after trimming and
\* lower-casing: None for a null or blank input, the instance itself for a
\* CanonicalAllergen, and otherwise an entry if and only if the text, trimmed
\* and lower-cased, is a key of _ALIAS_LOOKUP (then that key's entry).
C6_ExactKeyOnly ==
    returned("canonicalize_allergen")
    => CASE call.arg.kind = "None" -> call.result = None
         [] call.arg.kind = "CanonicalAllergen" -> call.result = call.arg
         [] OTHER ->
              LET key == lower(trimmed(str(call.arg)))
              IN  /\ key = "" => call.result = None
                  /\ call.result # None <=> key \in DOMAIN _ALIAS_LOOKUP
                  /\ key \in DOMAIN _ALIAS_LOOKUP
                       => call.result = Instance(_CANONICAL_DATA[_ALIAS_LOOKUP[key]])

C6_Witness ==
    /\ returned("canonicalize_allergen")
    /\ call.arg = Str("Peanut butter traces")
    /\ startswith(lower(call.arg.text), "peanut")
    /\ "peanut" \in DOMAIN _ALIAS_LOOKUP
    /\ call.result = None

\* the rule table with the item at position i declared first
move_to_front(items, i) ==
    << items[i] >> \o SubSeq(items, 1, i - 1) \o SubSeq(items, i + 1, Len(items))

\* the tables a reordering of the keys is judged by: each key in turn declared
\* first.  A reordered table returns the target of the exact key or else of
\* whichever prefix key it declares first, and every prefix key is first in
\* one of these.
\* the scan returns at the first key that is a prefix of the text, so the
\* reorderings that can change its match are those that put another of the
\* matching keys first
Reorderings(items, text) ==
    {move_to_front(items, i) : i \in PrefixPositions(items, text)}

\* the text normalize_certainty looks up for a str
looked_up(text) == collapse_whitespace(lower(strip(text)))

\* C7 as stated: some input with more than one rule key as a prefix gets a
\* different value from normalize_certainty once the keys of the rule table
\* are reordered.
C7_OrderChangesValue ==
    pc = "ready"
    => \E value \in CertaintyArgs :
          /\ value.kind = "str"
          /\ Cardinality(PrefixPositions(_CERTAINTY_NORMALIZATION_RULES,
                                         looked_up(value.text))) > 1
          /\ \E items \in Reorderings(_CERTAINTY_NORMALIZATION_RULES,
                                       looked_up(value.text)) :
                normalize_with(items, value) # normalize_certainty(value)

\* C7, amended: the declaration order decides which key the prefix scan
\* matches, never the value returned: the rule keys that are prefixes of one
\* input all map to the same value, and normalize_certainty returns the same
\* value under every reordering of the keys.
C7_OrderNeverChangesValue ==
    (returned("normalize_certainty") /\ call.arg.kind = "str")
    => LET text == looked_up(call.arg.text)
           prefix == PrefixPositions(_CERTAINTY_NORMALIZATION_RULES, text)
       IN  /\ \A i, j \in prefix :
                _CERTAINTY_NORMALIZATION_RULES[i].target
                  = _CERTAINTY_NORMALIZATION_RULES[j].target
           /\ IF text = "" THEN call.result = None
              ELSE \A items \in Reorderings(_CERTAINTY_NORMALIZATION_RULES, text) :
                      rule_lookup(items, text) = call.result

C7_Witness ==
    /\ returned("normalize_certainty")
    /\ call.arg = Str("high confidence please")
    /\ PrefixPositions(_CERTAINTY_NORMALIZATION_RULES, looked_up(call.arg.text)) = {13, 15}
    /\ prefix_scan(move_to_front(_CERTAINTY_NORMALIZATION_RULES, 15),
                   looked_up(call.arg.text), 1) = Str("likely")
    /\ call.result = Str("likely")

\* C8: once the loop of lines 198-201 has ended, the keys of _ALIAS_LOOKUP
\* are the lower-cased labels and aliases of the table, each mapped to the
\* last-declared entry that declares it; and until the module body has ended
\* a statement can always run, collision or not.
C8_LastWriteWins ==
    /\ pc \in {"L204", "L244", "ready"}
         => /\ DOMAIN _ALIAS_LOOKUP = DeclaredKeys(_CANONICAL_DATA)
            /\ \A key \in DOMAIN _ALIAS_LOOKUP :
                  _ALIAS_LOOKUP[key] = LastDeclaring(_CANONICAL_DATA, key)
    /\ pc # "ready" => ENABLED NextBuild

C8_Witness ==
    /\ pc = "ready"
    /\ \E key \in DOMAIN _ALIAS_LOOKUP :
          /\ Len(_CANONICAL_DATA) = 2
          /\ DeclaresKey(_CANONICAL_DATA, 1, key)
          /\ DeclaresKey(_CANONICAL_DATA, 2, key)
          /\ _CANONICAL_DATA[1] # _CANONICAL_DATA[2]
          /\ _ALIAS_LOOKUP[key] = 2

\* what the function returns for the argument in the current state
ResultOf(fn, arg) ==
    CASE fn = "canonicalize_allergen" -> canonicalize_allergen(arg)
      [] fn = "canonical_allergen_from_label" -> canonical_allergen_from_label(arg)
      [] fn = "normalize_certainty" -> normalize_certainty(arg)
      [] fn = "certainty_to_ui" -> certainty_to_ui(arg)
      [] fn = "iter_all_aliases" -> iter_all_aliases

\* the call just made, made again in this state, returns the same result
ReplayAgrees == pc = "returned" => call.result = ResultOf(call.fn, call.arg)

\* C9: once the import has ended, no step (a call of one of the five
\* functions, or its return) changes the table, the indexes or the certainty
\* maps, and the call just made, made again, returns the same result.
C9_CallsLeaveTablesAlone ==
    /\ [][(pc \in {"ready", "returned"}) => tables' = tables]_vars
    /\ []ReplayAgrees

C9_Witness ==
    /\ returned("iter_all_aliases")
    /\ _CANONICAL_DATA = SHIPPED_CANONICAL_DATA
    /\ call.result = KeysView(ShippedKeys)

\* C10: certainty_to_ui of a result of normalize_certainty is "certain" or
\* "likely"; certainty_to_ui returns "confirmed" only for the input
\* "confirmed" itself.
C10_ConfirmedOnlyDirect ==
    /\ returned("normalize_certainty")
         => certainty_to_ui(call.result) \in {Str("certain"), Str("likely")}
    /\ (returned("certainty_to_ui") /\ call.result = Str("confirmed"))
         => call.arg = Str("confirmed")

C10_Witness ==
    /\ returned("normalize_certainty")
    /\ call.arg = Str("confirmed")
    /\ call.result = Str("certain")
    /\ certainty_to_ui(call.result) = Str("certain")
    /\ certainty_to_ui(call.arg) = Str("confirmed")

=============================================================================
